---- MODULE Spec2Model ----
(***************************************************************************)
(* A model of solard (src/solard/__init__.py): the Event-Detection Loop,   *)
(* the ambient-light estimator, the outside-change detector, the screen    *)
(* and keyboard fades and the Update Coordinator, with the hardware files  *)
(* and an external actor writing them as the environment.                  *)
(*                                                                         *)
(* Percentages are Python floats in the source; here they are exact        *)
(* rationals <<numerator, denominator>> in lowest terms, so that the       *)
(* divisions of the source (the trimmed mean, raw * 100 / max, the         *)
(* truncation of max * target / 100) are computed and not assumed.         *)
(* Durations are integers in microseconds.                                 *)
(***************************************************************************)
EXTENDS Integers, Sequences, FiniteSets, TLC

(***************************************************************************)
(* Bounds of the model.                                                    *)
(***************************************************************************)
\* the raw range 0..MaxRaw of the screen backlight of the daemon runs
MaxRaw == 2
\* configured size of the ambient-light buffer (the default is 5)
MeasuresNumber == 3
\* the raw range 0..FadeMaxRaw of the screen backlight of the fade runs
FadeMaxRaw == 4
\* the doublings of the interval of a fade looked for in 0..MaxDoublings
MaxDoublings == 6
\* the raw range 0..LidMaxRaw of the screen backlight of the lid-close runs,
\* wide enough for screen_brightness_min percent of it to be a raw unit
LidMaxRaw == 20

(***************************************************************************)
(* Program constants: the argparse defaults of main().                     *)
(***************************************************************************)
screen_brightness_min == 5
screen_brightness_dim_min == 5
ambient_light_delta_update == 3
keyboard_backlight_threshold == 10
\* --screen-brightness-time 0.5 s, in microseconds
screen_brightness_time == 500000
\* "Sleeping less than 5ms doesn't looks good": 0.005 s in microseconds
MinInterval == 5000
\* --idle-dim in seconds when the idle dim is enabled (the default 0 disables)
IdleDimOn == 1
\* --ambient-light-factor 5.5 = 11 / 2
ambient_light_factor == <<11, 2>>
\* highest level of the asus keyboard backlight ("value 0 to 3")
KbdMax == 3

(***************************************************************************)
(* Exact rationals.                                                        *)
(***************************************************************************)
RECURSIVE GCD(_, _)
GCD(a, b) == IF b = 0 THEN a ELSE GCD(b, a % b)

Abs(x) == IF x < 0 THEN -x ELSE x

Rat(n, d) == LET g == GCD(n, d) IN <<n \div g, d \div g>>

R(n) == <<n, 1>>

RLess(a, b) == a[1] * b[2] < b[1] * a[2]

RAdd(a, b) == Rat(a[1] * b[2] + b[1] * a[2], a[2] * b[2])

RAbsDiff(a, b) == Rat(Abs(a[1] * b[2] - b[1] * a[2]), a[2] * b[2])

RDiv(a, k) == Rat(a[1], a[2] * k)

\* int(x) of a non-negative float
RTrunc(a) == a[1] \div a[2]

RECURSIVE RSum(_)
RSum(s) == IF s = <<>> THEN R(0) ELSE RAdd(Head(s), RSum(Tail(s)))

\* max(values) and min(values) of a non-empty list
RECURSIVE RMaxOf(_)
RMaxOf(s) ==
    IF Len(s) = 1 THEN s[1]
    ELSE LET m == RMaxOf(Tail(s)) IN IF RLess(Head(s), m) THEN m ELSE Head(s)

RECURSIVE RMinOf(_)
RMinOf(s) ==
    IF Len(s) = 1 THEN s[1]
    ELSE LET m == RMinOf(Tail(s)) IN IF RLess(m, Head(s)) THEN m ELSE Head(s)

\* list.remove(v): drops the first occurrence of v
RECURSIVE ListRemove(_, _)
ListRemove(s, v) ==
    IF s = <<>> THEN <<>>
    ELSE IF Head(s) = v THEN Tail(s)
    ELSE <<Head(s)>> \o ListRemove(Tail(s), v)

RECURSIVE Pow(_, _)
Pow(b, k) == IF k = 0 THEN 1 ELSE b * Pow(b, k - 1)

(***************************************************************************)
(* Ambient Light Estimator.                                                *)
(* A sensor reading is <<>> (the read raised IOError) or <<raw>>.  The     *)
(* readings of the model are 0 and powers of ten, whose log10 is exact.    *)
(***************************************************************************)
Log10(raw) == CHOOSE k \in 0..12 : Pow(10, k) = raw

get_ambient_light(reading) ==
    LET normalized ==
            IF reading = <<>> THEN R(100)
            ELSE IF reading[1] > 0
                 THEN LET v == Rat(Log10(reading[1]) * 100 * ambient_light_factor[2],
                                   ambient_light_factor[1])
                      IN  IF RLess(R(100), v) THEN R(100) ELSE v
                 ELSE R(0)
    IN  IF RLess(normalized, R(screen_brightness_min))
        THEN R(screen_brightness_min)
        ELSE normalized

\* DequeAppend with a fault: a full buffer drops the new sample
DequeAppendKeepsOldest(values, v, n) ==
    IF Len(values) >= n THEN values ELSE Append(values, v)

\* collections.deque(maxlen=n).append(v)
DequeAppend(values, v, n) ==
    IF Len(values) >= n THEN Append(Tail(values), v) ELSE Append(values, v)

\* TrimmedValues with a fault: only the maximum is removed
TrimmedValuesMaxOnly(values) ==
    IF Len(values) >= 3
    THEN ListRemove(values, RMaxOf(values))
    ELSE values

\* the list the mean is taken of
TrimmedValues(values) ==
    IF Len(values) >= 3
    THEN LET a == ListRemove(values, RMaxOf(values))
         IN  ListRemove(a, RMinOf(a))
    ELSE values

Tendency(values) == RDiv(RSum(TrimmedValues(values)), Len(TrimmedValues(values)))

(***************************************************************************)
(* Fade Controller: the pure parts.                                        *)
(***************************************************************************)
\* raw_target = int(screen_brightness_max * float(target) / 100.0)
RawTarget(max, target) == RTrunc(Rat(max * target[1], 100 * target[2]))

\* "while interval < 0.005: interval *= 2; step *= 2", the interval being
\* num / den microseconds; num = 0 never leaves the loop of the source and
\* is kept apart by FadeSpins.
RECURSIVE Doubled(_, _, _)
Doubled(step, num, den) ==
    IF num < MinInterval * den
    THEN Doubled(step * 2, num * 2, den)
    ELSE [step |-> step, num |-> num, den |-> den]

FadeSpins(T, diff) == diff # 0 /\ T = 0

\* FadeStep with a fault: the interval is never doubled
FadeStepNoDoubling(T, diff) ==
    [step |-> IF diff > 0 THEN 1 ELSE -1, num |-> T, den |-> Abs(diff)]

\* step and interval of a fade over diff # 0 raw units in T > 0 microseconds
FadeStep(T, diff) == Doubled(IF diff > 0 THEN 1 ELSE -1, T, Abs(diff))

\* IsFinished with a fault: reaching raw_target exactly does not finish
IsFinishedStrict(sb, raw_target, step) ==
    IF step > 0 THEN sb > raw_target ELSE sb < raw_target

\* is_finished() of the source, chosen by the sign of diff
IsFinished(sb, raw_target, step) ==
    IF step > 0 THEN sb >= raw_target ELSE sb <= raw_target

\* targets of fade_keyboard_brightness
KbdTargets(percent) ==
    IF RLess(percent, R(keyboard_backlight_threshold))
    THEN <<1, 2, 3>>
    ELSE <<2, 1, 0>>

(***************************************************************************)
(* The state of the daemon and of its environment.                         *)
(***************************************************************************)
VARIABLES
    conf,                        \* the configuration, fixed at construction
    hwScreen,                    \* the screen backlight file
    hwKbd,                       \* the keyboard backlight file
    last_screen_brightness,
    last_keyboard_brightness,
    ambient_light_last,
    ambient_light_current,
    ambient_light_values,
    brightnesses_to_set,
    brightnesses_have_to_change,
    state,                       \* Daemon._state
    shutdown,                    \* Daemon._shutdown
    loopShutdown,                \* LoopThread._shutdown of the two loops
    mainPc,                      \* Daemon.run
    ev,                          \* the thread of event_detection_thread
    coPc,                        \* the thread of brightness_update_thread
    scr,                         \* the worker of fade_screen_brightness
    kbd,                         \* the worker of fade_keyboard_brightness
    outside,                     \* history: the files another program wrote
                                 \* since the daemon last read them
    faults,                      \* whether a read or write of a file can
                                 \* fail (IOError) in this environment
    unread                       \* history: a target was published and the
                                 \* coordinator has not read a target since

vars == <<conf, hwScreen, hwKbd, last_screen_brightness,
          last_keyboard_brightness, ambient_light_last,
          ambient_light_current, ambient_light_values, brightnesses_to_set,
          brightnesses_have_to_change, state, shutdown, loopShutdown,
          mainPc, ev, coPc, scr, kbd, outside, faults, unread>>

hwVars == <<hwScreen, hwKbd, outside, faults>>
lastVars == <<last_screen_brightness, last_keyboard_brightness>>
ambientVars == <<ambient_light_last, ambient_light_current,
                 ambient_light_values>>
pubVars == <<brightnesses_to_set, brightnesses_have_to_change, unread>>
threadVars == <<loopShutdown, mainPc, coPc, scr, kbd>>

\* XScreenSaver idle times in milliseconds
IdleTimes == {0, 2000}

\* a read or write of a file succeeds, or fails where files can fail
IoOutcomes == {ok \in BOOLEAN : ok \/ faults}

\* what a read of the sensor gives: one of `readings`, or <<>> (IOError)
SensorOutcomes(readings) == readings \cup {r \in {<<>>} : faults}

\* the history `outside` after the daemon tried to read `file`
AfterRead(file, readOk) == IF readOk THEN outside \ {file} ELSE outside

States == {"Used", "Idle", "Closed"}

ScrOff == [pc |-> "off", raw_target |-> 0, sb |-> 0, step |-> 0,
           interval |-> <<0, 1>>, value |-> 0, final |-> FALSE, rd |-> 0]
KbdOff == [pc |-> "off", targets |-> <<>>, i |-> 0, rd |-> 0]
EvLoop == [pc |-> "loop", branch |-> "none", rd |-> 0]

\* the daemon with the screen at raw s and the keyboard at level k, in state
\* Used with no thread inside a tick or a fade: what Daemon.__init__ leaves,
\* but for the ambient-light fields and the published target
DaemonFields(c, s, k) ==
    /\ conf = c
    /\ hwScreen = s
    /\ hwKbd = k
    /\ last_screen_brightness = s
    /\ last_keyboard_brightness = k
    /\ state = "Used"
    /\ shutdown = FALSE
    /\ loopShutdown = [event |-> FALSE, update |-> FALSE]
    /\ mainPc = "run"
    /\ ev = EvLoop
    /\ coPc = "loop"
    /\ scr = ScrOff
    /\ kbd = KbdOff

\* InitDaemon with a fault: ambient_light_last is not seeded from the
\* screen, it starts at 0
InitDaemonUnseeded(c, s, k) ==
    /\ DaemonFields(c, s, k)
    /\ ambient_light_last = R(0)
    /\ ambient_light_current = ambient_light_last
    /\ ambient_light_values = <<>>
    /\ brightnesses_to_set = <<R(0), R(0)>>
    /\ brightnesses_have_to_change = FALSE
    /\ unread = FALSE

\* Daemon.__init__ with the screen at raw s and the keyboard at level k
InitDaemon(c, s, k) ==
    /\ DaemonFields(c, s, k)
    /\ ambient_light_last =
          (LET pct == Rat(s * 100, c.screen_brightness_max)
           IN  IF RLess(pct, R(screen_brightness_min)) THEN R(0) ELSE pct)
    /\ ambient_light_current = ambient_light_last
    /\ ambient_light_values = <<>>
    /\ brightnesses_to_set = <<R(0), R(0)>>
    /\ brightnesses_have_to_change = FALSE
    /\ unread = FALSE

\* the environment of a run: nothing written by another program yet, and
\* whether file accesses can fail in it
InitEnvironment(canFail) ==
    /\ outside = {}
    /\ faults = canFail

(***************************************************************************)
(* Publishing a target, and the outside-change detector.                   *)
(***************************************************************************)
\* Daemon.brightnesses_set
brightnesses_set(scrPct, kbdPct) ==
    /\ brightnesses_to_set' = <<scrPct, kbdPct>>
    /\ brightnesses_have_to_change' = TRUE
    /\ unread' = TRUE

\* Daemon.something_have_changed_outside
something_have_changed_outside ==
    IF conf.stop_on_outside_change
    THEN /\ shutdown' = TRUE
         /\ UNCHANGED pubVars
    ELSE /\ brightnesses_set(ambient_light_last, ambient_light_last)
         /\ UNCHANGED shutdown

\* The comparison of verify_if_something_keyboard_changed_outside, rd being
\* the level get_keyboard_brightness returned
KeyboardCompare(rd) ==
    IF rd # last_keyboard_brightness
    THEN /\ last_keyboard_brightness' = rd
         /\ something_have_changed_outside
    ELSE UNCHANGED <<last_keyboard_brightness, shutdown, pubVars>>

\* ScreenCompare with a fault: a conflict is reported but the last known
\* value is not brought up to the value read
ScreenCompareStale(rd) ==
    IF rd # last_screen_brightness
    THEN /\ UNCHANGED last_screen_brightness
         /\ something_have_changed_outside
    ELSE UNCHANGED <<last_screen_brightness, shutdown, pubVars>>

\* The comparison of verify_if_something_screen_changed_outside
ScreenCompare(rd) ==
    IF rd # last_screen_brightness
    THEN /\ last_screen_brightness' = rd
         /\ something_have_changed_outside
    ELSE UNCHANGED <<last_screen_brightness, shutdown, pubVars>>

\* Daemon.update_ambient_light_tendency with the sensor giving `reading`
update_ambient_light_tendency(reading) ==
    /\ ambient_light_values' =
          DequeAppend(ambient_light_values, get_ambient_light(reading),
                      MeasuresNumber)
    /\ ambient_light_current' = Tendency(ambient_light_values')

(***************************************************************************)
(* Event-Detection Loop: one call of event_detection_thread is one tick.   *)
(* A tick that runs the detector takes several steps (each hardware read   *)
(* and each comparison with the last known value is a step of its own);    *)
(* the other ticks take one.                                               *)
(***************************************************************************)
\* XScreenSaverQuerier.get_idle
get_idle(fullscreen, xssIdle) == IF fullscreen THEN 0 ELSE xssIdle

\* idle with a fault: an idle_dim of 0 does not disable the test
idleNeverDisabled(fullscreen, xssIdle) ==
    get_idle(fullscreen, xssIdle) > conf.idle_dim * 1000

\* Daemon.idle
idle(fullscreen, xssIdle) ==
    IF conf.idle_dim <= 0 THEN FALSE
    ELSE get_idle(fullscreen, xssIdle) > conf.idle_dim * 1000

TickReady == ev.pc = "loop" /\ ~loopShutdown.event

\* TickClosed with a fault: (0, 0) is published on every tick of a closed lid
TickClosedRepublish(lid, isIdle) ==
    /\ TickReady
    /\ lid
    /\ brightnesses_set(R(0), R(0))
    /\ state' = "Closed"
    /\ UNCHANGED <<conf, hwVars, lastVars, ambientVars, shutdown, threadVars,
                   ev>>

\* lid closed
TickClosed(lid, isIdle) ==
    /\ TickReady
    /\ lid
    /\ IF state # "Closed"
       THEN /\ brightnesses_set(R(0), R(0))
            /\ state' = "Closed"
       ELSE UNCHANGED <<pubVars, state>>
    /\ UNCHANGED <<conf, hwVars, lastVars, ambientVars, shutdown, threadVars,
                   ev>>

\* TickIdle with a fault: the dimmed target is published on every idle tick
TickIdleRepublish(lid, isIdle, reading) ==
    /\ TickReady
    /\ ~lid /\ isIdle /\ state = "Idle"
    /\ brightnesses_set(R(screen_brightness_dim_min), R(100))
    /\ update_ambient_light_tendency(reading)
    /\ UNCHANGED <<conf, hwVars, lastVars, ambient_light_last, state,
                   shutdown, threadVars, ev>>

\* TickIdle with a fault: a tick taken while already Idle commits the
\* tendency it computed
TickIdleCommits(lid, isIdle, reading) ==
    /\ TickReady
    /\ ~lid /\ isIdle /\ state = "Idle"
    /\ update_ambient_light_tendency(reading)
    /\ ambient_light_last' = ambient_light_current'
    /\ UNCHANGED <<conf, hwVars, lastVars, pubVars, state, shutdown,
                   threadVars, ev>>

\* lid open, user idle, already Idle
TickIdle(lid, isIdle, reading) ==
    /\ TickReady
    /\ ~lid /\ isIdle /\ state = "Idle"
    /\ update_ambient_light_tendency(reading)
    /\ UNCHANGED <<conf, hwVars, lastVars, ambient_light_last, pubVars, state,
                   shutdown, threadVars, ev>>

\* TickRecover with a fault: the fresh sample is published and committed
TickRecoverFresh(lid, isIdle, reading) ==
    /\ TickReady
    /\ ~lid /\ ~isIdle /\ state # "Used"
    /\ state' = "Used"
    /\ update_ambient_light_tendency(reading)
    /\ brightnesses_set(get_ambient_light(reading), get_ambient_light(reading))
    /\ ambient_light_last' = get_ambient_light(reading)
    /\ UNCHANGED <<conf, hwVars, lastVars, shutdown, threadVars, ev>>

\* lid open, user not idle, coming back from Idle or Closed
TickRecover(lid, isIdle, reading) ==
    /\ TickReady
    /\ ~lid /\ ~isIdle /\ state # "Used"
    /\ state' = "Used"
    /\ update_ambient_light_tendency(reading)
    /\ brightnesses_set(ambient_light_last, ambient_light_last)
    /\ UNCHANGED <<conf, hwVars, lastVars, ambient_light_last, shutdown,
                   threadVars, ev>>

\* TickVerify with a fault: the exception of a failed read is not caught by
\* LoopThread._loop and ends the thread
TickVerifyUncaught(lid, isIdle, readOk) ==
    /\ TickReady
    /\ ~lid
    /\ \/ isIdle /\ state # "Idle"
       \/ ~isIdle /\ state = "Used"
    /\ ev' = IF readOk
             THEN [pc |-> "kbd_cmp",
                   branch |-> IF isIdle THEN "idle" ELSE "steady",
                   rd |-> hwKbd]
             ELSE [EvLoop EXCEPT !.pc = "done"]
    /\ outside' = AfterRead("keyboard", readOk)
    /\ UNCHANGED <<conf, hwScreen, hwKbd, faults, lastVars, ambientVars,
                   pubVars, state, shutdown, threadVars>>

\* The two branches that start with verify_if_something_changed_outside:
\* entering Idle, and steady Used.  The step is the read of the keyboard
\* level; a failed read leaves `value` unbound in get_keyboard_brightness
\* and the exception ends the tick.
TickVerify(lid, isIdle, readOk) ==
    /\ TickReady
    /\ ~lid
    /\ \/ isIdle /\ state # "Idle"
       \/ ~isIdle /\ state = "Used"
    /\ ev' = IF readOk
             THEN [pc |-> "kbd_cmp",
                   branch |-> IF isIdle THEN "idle" ELSE "steady",
                   rd |-> hwKbd]
             ELSE EvLoop
    /\ outside' = AfterRead("keyboard", readOk)
    /\ UNCHANGED <<conf, hwScreen, hwKbd, faults, lastVars, ambientVars,
                   pubVars, state, shutdown, threadVars>>

EvKeyboardCompare ==
    /\ ev.pc = "kbd_cmp"
    /\ KeyboardCompare(ev.rd)
    /\ ev' = [ev EXCEPT !.pc = "scr_read", !.rd = 0]
    /\ UNCHANGED <<conf, hwVars, last_screen_brightness, ambientVars, state,
                   threadVars>>

\* get_screen_brightness of the detector; a failed read ends the tick
EvScreenRead(readOk) ==
    /\ ev.pc = "scr_read"
    /\ ev' = IF readOk
             THEN [ev EXCEPT !.pc = "scr_cmp", !.rd = hwScreen]
             ELSE EvLoop
    /\ outside' = AfterRead("screen", readOk)
    /\ UNCHANGED <<conf, hwScreen, hwKbd, faults, lastVars, ambientVars,
                   pubVars, state, shutdown, threadVars>>

EvScreenCompare ==
    /\ ev.pc = "scr_cmp"
    /\ ScreenCompare(ev.rd)
    /\ ev' = [ev EXCEPT !.pc = "finish", !.rd = 0]
    /\ UNCHANGED <<conf, hwVars, last_keyboard_brightness, ambientVars, state,
                   threadVars>>

\* EvFinishIdle with a fault: the branch leaves the state as it found it
EvFinishIdleKeepsState(reading) ==
    /\ ev.pc = "finish" /\ ev.branch = "idle"
    /\ brightnesses_set(R(screen_brightness_dim_min), R(100))
    /\ update_ambient_light_tendency(reading)
    /\ ev' = EvLoop
    /\ UNCHANGED <<conf, hwVars, lastVars, ambient_light_last, state, shutdown,
                   threadVars>>

\* the rest of the branch "user idle detected"
EvFinishIdle(reading) ==
    /\ ev.pc = "finish" /\ ev.branch = "idle"
    /\ brightnesses_set(R(screen_brightness_dim_min), R(100))
    /\ state' = "Idle"
    /\ update_ambient_light_tendency(reading)
    /\ ev' = EvLoop
    /\ UNCHANGED <<conf, hwVars, lastVars, ambient_light_last, shutdown,
                   threadVars>>

\* the rest of the steady Used branch
EvFinishSteady(reading) ==
    /\ ev.pc = "finish" /\ ev.branch = "steady"
    /\ update_ambient_light_tendency(reading)
    /\ LET changed_enough ==
               RLess(R(ambient_light_delta_update),
                     RAbsDiff(ambient_light_current', ambient_light_last))
           newest == ambient_light_values'[Len(ambient_light_values')]
       IN  IF changed_enough
           THEN /\ brightnesses_set(newest, newest)
                /\ ambient_light_last' = newest
           ELSE UNCHANGED <<pubVars, ambient_light_last>>
    /\ ev' = EvLoop
    /\ UNCHANGED <<conf, hwVars, lastVars, state, shutdown, threadVars>>

\* LoopThread._loop leaves its while loop
EvExit ==
    /\ ev.pc = "loop" /\ loopShutdown.event
    /\ ev' = [ev EXCEPT !.pc = "done"]
    /\ UNCHANGED <<conf, hwVars, lastVars, ambientVars, pubVars, state,
                   shutdown, threadVars>>

(***************************************************************************)
(* Fade Controller: fade_screen_brightness on its worker thread.           *)
(* set_screen_brightness(value) is four steps: the read and the comparison *)
(* of the detector, the write of the file, and the assignment of           *)
(* last_screen_brightness.                                                 *)
(***************************************************************************)
\* ScreenSetCall with a fault: the last call writes the advanced value and
\* not raw_target
ScreenSetCallNoLanding(w, sb) ==
    [w EXCEPT !.pc = "read",
              !.sb = sb,
              !.value = sb,
              !.final = IsFinished(sb, w.raw_target, w.step),
              !.rd = 0]

\* The call of set_screen_brightness the loop of the fade makes next, the
\* local screen_brightness being sb: the value sb while not is_finished(),
\* raw_target at last.
ScreenSetCall(w, sb) ==
    [w EXCEPT !.pc = "read",
              !.sb = sb,
              !.value = IF IsFinished(sb, w.raw_target, w.step)
                        THEN w.raw_target ELSE sb,
              !.final = IsFinished(sb, w.raw_target, w.step),
              !.rd = 0]

\* ScreenFadeBegin with a fault: the first call writes the current value
ScreenFadeBeginFromCurrent(w, cur, T) ==
    LET diff == w.raw_target - cur
        p == FadeStep(T, diff)
    IN  IF diff = 0 THEN [ScrOff EXCEPT !.pc = "returned"]
        ELSE IF FadeSpins(T, diff) THEN [ScrOff EXCEPT !.pc = "spin"]
        ELSE ScreenSetCall([w EXCEPT !.step = p.step,
                                     !.interval = <<p.num, p.den>>],
                           cur)

\* From the entry of fade_screen_brightness to its first call of
\* set_screen_brightness: reads the current raw value (cur).
ScreenFadeBegin(w, cur, T) ==
    LET diff == w.raw_target - cur
        p == FadeStep(T, diff)
    IN  IF diff = 0 THEN [ScrOff EXCEPT !.pc = "returned"]
        ELSE IF FadeSpins(T, diff) THEN [ScrOff EXCEPT !.pc = "spin"]
        ELSE ScreenSetCall([w EXCEPT !.step = p.step,
                                     !.interval = <<p.num, p.den>>],
                           cur + p.step)

\* After set_screen_brightness returned: the fade is over, or it sleeps,
\* advances screen_brightness and tests is_finished() again.
ScreenFadeAdvance(w) ==
    IF w.final THEN [ScrOff EXCEPT !.pc = "returned"]
    ELSE ScreenSetCall(w, w.sb + w.step)

FadeScreenBegin(readOk) ==
    /\ scr.pc = "begin"
    /\ scr' = IF readOk
              THEN ScreenFadeBegin(scr, hwScreen, conf.screen_brightness_time)
              ELSE [ScrOff EXCEPT !.pc = "raised"]
    /\ outside' = AfterRead("screen", readOk)
    /\ UNCHANGED <<conf, hwScreen, hwKbd, faults, lastVars, ambientVars,
                   pubVars, state, shutdown, loopShutdown, mainPc, ev, coPc,
                   kbd>>

FadeScreenRead(readOk) ==
    /\ scr.pc = "read"
    /\ scr' = IF readOk
              THEN [scr EXCEPT !.pc = "cmp", !.rd = hwScreen]
              ELSE [ScrOff EXCEPT !.pc = "raised"]
    /\ outside' = AfterRead("screen", readOk)
    /\ UNCHANGED <<conf, hwScreen, hwKbd, faults, lastVars, ambientVars,
                   pubVars, state, shutdown, loopShutdown, mainPc, ev, coPc,
                   kbd>>

\* FadeScreenCompare with a fault: a conflict puts the state back to Used
FadeScreenCompareMarksUsed ==
    /\ scr.pc = "cmp"
    /\ ScreenCompare(scr.rd)
    /\ state' = IF scr.rd # last_screen_brightness THEN "Used" ELSE state
    /\ scr' = [scr EXCEPT !.pc = "write", !.rd = 0]
    /\ UNCHANGED <<conf, hwVars, last_keyboard_brightness, ambientVars,
                   loopShutdown, mainPc, ev, coPc, kbd>>

FadeScreenCompare ==
    /\ scr.pc = "cmp"
    /\ ScreenCompare(scr.rd)
    /\ scr' = [scr EXCEPT !.pc = "write", !.rd = 0]
    /\ UNCHANGED <<conf, hwVars, last_keyboard_brightness, ambientVars, state,
                   loopShutdown, mainPc, ev, coPc, kbd>>

\* write_sys_value; an IOError is logged and the file keeps its value
FadeScreenWrite(writeOk) ==
    /\ scr.pc = "write"
    /\ hwScreen' = IF writeOk THEN scr.value ELSE hwScreen
    /\ scr' = [scr EXCEPT !.pc = "assign"]
    /\ UNCHANGED <<conf, hwKbd, outside, faults, lastVars, ambientVars, pubVars,
                   state, shutdown, loopShutdown, mainPc, ev, coPc, kbd>>

FadeScreenAssign ==
    /\ scr.pc = "assign"
    /\ last_screen_brightness' = scr.value
    /\ scr' = ScreenFadeAdvance(scr)
    /\ UNCHANGED <<conf, hwVars, last_keyboard_brightness, ambientVars,
                   pubVars, state, shutdown, loopShutdown, mainPc, ev, coPc,
                   kbd>>

(***************************************************************************)
(* Fade Controller: fade_keyboard_brightness on its worker thread.         *)
(***************************************************************************)
\* the early return of the fade against the first call of
\* set_keyboard_brightness
FadeKeyboardBegin ==
    /\ kbd.pc = "begin"
    /\ kbd' = IF kbd.targets[Len(kbd.targets)] = last_keyboard_brightness
              THEN [KbdOff EXCEPT !.pc = "returned"]
              ELSE [kbd EXCEPT !.pc = "read", !.i = 1]
    /\ UNCHANGED <<conf, hwVars, lastVars, ambientVars, pubVars, state,
                   shutdown, loopShutdown, mainPc, ev, coPc, scr>>

FadeKeyboardRead(readOk) ==
    /\ kbd.pc = "read"
    /\ kbd' = IF readOk
              THEN [kbd EXCEPT !.pc = "cmp", !.rd = hwKbd]
              ELSE [KbdOff EXCEPT !.pc = "raised"]
    /\ outside' = AfterRead("keyboard", readOk)
    /\ UNCHANGED <<conf, hwScreen, hwKbd, faults, lastVars, ambientVars,
                   pubVars, state, shutdown, loopShutdown, mainPc, ev, coPc,
                   scr>>

FadeKeyboardCompare ==
    /\ kbd.pc = "cmp"
    /\ KeyboardCompare(kbd.rd)
    /\ kbd' = [kbd EXCEPT !.pc = "write", !.rd = 0]
    /\ UNCHANGED <<conf, hwVars, last_screen_brightness, ambientVars, state,
                   loopShutdown, mainPc, ev, coPc, scr>>

FadeKeyboardWrite(writeOk) ==
    /\ kbd.pc = "write"
    /\ hwKbd' = IF writeOk THEN kbd.targets[kbd.i] ELSE hwKbd
    /\ kbd' = [kbd EXCEPT !.pc = "assign"]
    /\ UNCHANGED <<conf, hwScreen, outside, faults, lastVars, ambientVars, pubVars,
                   state, shutdown, loopShutdown, mainPc, ev, coPc, scr>>

FadeKeyboardAssign ==
    /\ kbd.pc = "assign"
    /\ last_keyboard_brightness' = kbd.targets[kbd.i]
    /\ kbd' = IF kbd.i = Len(kbd.targets)
              THEN [KbdOff EXCEPT !.pc = "returned"]
              ELSE [kbd EXCEPT !.pc = "read", !.i = kbd.i + 1]
    /\ UNCHANGED <<conf, hwVars, last_screen_brightness, ambientVars,
                   pubVars, state, shutdown, loopShutdown, mainPc, ev, coPc,
                   scr>>

(***************************************************************************)
(* Update Coordinator: brightness_update_thread under LoopThread._loop.    *)
(***************************************************************************)
WorkerOver(w) == w.pc \in {"returned", "raised"}

\* The wait returns with the signal set: the target is read and the two
\* fades are submitted.  (A wait that times out with the signal clear
\* changes nothing.)
CoordinatorStart ==
    /\ coPc = "loop" /\ ~loopShutdown.update
    /\ brightnesses_have_to_change
    /\ scr' = [ScrOff EXCEPT
                  !.pc = "begin",
                  !.raw_target = RawTarget(conf.screen_brightness_max,
                                           brightnesses_to_set[1])]
    /\ kbd' = [KbdOff EXCEPT !.pc = "begin",
                             !.targets = KbdTargets(brightnesses_to_set[2])]
    /\ coPc' = "fading"
    /\ unread' = FALSE
    /\ UNCHANGED <<conf, hwVars, lastVars, ambientVars, brightnesses_to_set,
                   brightnesses_have_to_change, state, shutdown, loopShutdown,
                   mainPc, ev>>

\* CoordinatorJoin with a fault: the coordinator goes on as soon as one of
\* the two fades is over
CoordinatorJoinFirstDone ==
    /\ coPc = "fading"
    /\ WorkerOver(scr) \/ WorkerOver(kbd)
    /\ brightnesses_have_to_change' =
          IF scr.pc = "returned" /\ kbd.pc = "returned"
          THEN FALSE
          ELSE brightnesses_have_to_change
    /\ scr' = ScrOff
    /\ kbd' = KbdOff
    /\ coPc' = "loop"
    /\ UNCHANGED <<conf, hwVars, lastVars, ambientVars, brightnesses_to_set,
                   unread, state, shutdown, loopShutdown, mainPc, ev>>

\* CoordinatorJoin with a fault: the signal is cleared whether the fades
\* returned or raised
CoordinatorJoinAlwaysClears ==
    /\ coPc = "fading"
    /\ WorkerOver(scr) /\ WorkerOver(kbd)
    /\ brightnesses_have_to_change' = FALSE
    /\ scr' = ScrOff
    /\ kbd' = KbdOff
    /\ coPc' = "loop"
    /\ UNCHANGED <<conf, hwVars, lastVars, ambientVars, brightnesses_to_set,
                   unread, state, shutdown, loopShutdown, mainPc, ev>>

\* futures.wait, fut.result() of each fade, and the clear of the signal,
\* which an exception of a fade skips
CoordinatorJoin ==
    /\ coPc = "fading"
    /\ WorkerOver(scr) /\ WorkerOver(kbd)
    /\ brightnesses_have_to_change' =
          IF scr.pc = "returned" /\ kbd.pc = "returned"
          THEN FALSE
          ELSE brightnesses_have_to_change
    /\ scr' = ScrOff
    /\ kbd' = KbdOff
    /\ coPc' = "loop"
    /\ UNCHANGED <<conf, hwVars, lastVars, ambientVars, brightnesses_to_set,
                   unread, state, shutdown, loopShutdown, mainPc, ev>>

CoordinatorExit ==
    /\ coPc = "loop" /\ loopShutdown.update
    /\ coPc' = "done"
    /\ UNCHANGED <<conf, hwVars, lastVars, ambientVars, pubVars, state,
                   shutdown, loopShutdown, mainPc, ev, scr, kbd>>

(***************************************************************************)
(* Daemon.run on the main thread, and the environment.                     *)
(***************************************************************************)
\* SIGINT or SIGTERM: the handler stop()
Signal ==
    /\ mainPc = "run" /\ ~shutdown
    /\ shutdown' = TRUE
    /\ UNCHANGED <<conf, hwVars, lastVars, ambientVars, pubVars, state,
                   threadVars, ev>>

\* the polling loop sees _shutdown and stops the two loops
MainStop ==
    /\ mainPc = "run" /\ shutdown
    /\ loopShutdown' = [event |-> TRUE, update |-> TRUE]
    /\ mainPc' = "join"
    /\ UNCHANGED <<conf, hwVars, lastVars, ambientVars, pubVars, state,
                   shutdown, ev, coPc, scr, kbd>>

\* t.wait() of the two loops
MainJoin ==
    /\ mainPc = "join"
    /\ ev.pc = "done" /\ coPc = "done"
    /\ mainPc' = "exit"
    /\ UNCHANGED <<conf, hwVars, lastVars, ambientVars, pubVars, state,
                   shutdown, loopShutdown, ev, coPc, scr, kbd>>

\* another program (a hotkey) writes one of the backlight files
OutsideWriteScreen(v) ==
    /\ mainPc # "exit"
    /\ v # hwScreen
    /\ hwScreen' = v
    /\ outside' = outside \cup {"screen"}
    /\ UNCHANGED <<conf, hwKbd, faults, lastVars, ambientVars, pubVars,
                   state, shutdown, threadVars, ev>>

OutsideWriteKeyboard(v) ==
    /\ mainPc # "exit"
    /\ v # hwKbd
    /\ hwKbd' = v
    /\ outside' = outside \cup {"keyboard"}
    /\ UNCHANGED <<conf, hwScreen, faults, lastVars, ambientVars, pubVars,
                   state, shutdown, threadVars, ev>>

\* one call of event_detection_thread begins, the sensor giving one of
\* `readings` when the branch samples it at once
Tick(readings) ==
    \E lid \in BOOLEAN, fullscreen \in BOOLEAN, xssIdle \in IdleTimes :
        \/ TickClosed(lid, idle(fullscreen, xssIdle))
        \/ \E reading \in SensorOutcomes(readings) :
               \/ TickIdle(lid, idle(fullscreen, xssIdle), reading)
               \/ TickRecover(lid, idle(fullscreen, xssIdle), reading)
        \/ \E readOk \in IoOutcomes :
               TickVerify(lid, idle(fullscreen, xssIdle), readOk)

\* the steps of the Event-Detection Loop
EventLoop(readings) ==
    \/ Tick(readings)
    \/ EvKeyboardCompare
    \/ \E readOk \in IoOutcomes : EvScreenRead(readOk)
    \/ EvScreenCompare
    \/ \E reading \in SensorOutcomes(readings) : EvFinishIdle(reading)
    \/ \E reading \in SensorOutcomes(readings) : EvFinishSteady(reading)
    \/ EvExit

\* the steps of the Update Coordinator and of its two fades
UpdateLoop ==
    \/ CoordinatorStart
    \/ CoordinatorJoin
    \/ CoordinatorExit
    \/ \E readOk \in IoOutcomes : FadeScreenBegin(readOk)
    \/ \E readOk \in IoOutcomes : FadeScreenRead(readOk)
    \/ FadeScreenCompare
    \/ \E writeOk \in IoOutcomes : FadeScreenWrite(writeOk)
    \/ FadeScreenAssign
    \/ FadeKeyboardBegin
    \/ \E readOk \in IoOutcomes : FadeKeyboardRead(readOk)
    \/ FadeKeyboardCompare
    \/ \E writeOk \in IoOutcomes : FadeKeyboardWrite(writeOk)
    \/ FadeKeyboardAssign

\* the main thread once _shutdown is set
Main ==
    \/ MainStop
    \/ MainJoin

\* the external actor
OutsideScreen == \E v \in 0..conf.screen_brightness_max : OutsideWriteScreen(v)

OutsideKeyboard == \E v \in 0..KbdMax : OutsideWriteKeyboard(v)

(***************************************************************************)
(* Spec: the whole daemon (the three threads and the two fade workers)     *)
(* with nobody else writing the backlight files, no failing file access   *)
(* and no termination signal, under both policies for an outside change.   *)
(***************************************************************************)
\* sensor readings of the runs of the whole daemon: raw 1000000 (100 %)
DaemonReadings == {<<1000000>>}

DaemonConfigs ==
    [stop_on_outside_change : BOOLEAN,
     idle_dim : {IdleDimOn},
     screen_brightness_max : {MaxRaw},
     screen_brightness_time : {screen_brightness_time}]

Init ==
    /\ InitEnvironment(FALSE)
    /\ \E c \in DaemonConfigs : InitDaemon(c, 0, 0)

Next ==
    \/ EventLoop(DaemonReadings)
    \/ UpdateLoop
    \/ Main

Spec == Init /\ [][Next]_vars

(***************************************************************************)
(* SpecTicks: the Event-Detection Loop alone, called again and again,     *)
(* from every raw value of the screen, in an environment where another    *)
(* program writes the screen backlight file and reads of files fail, both *)
(* any number of times.                                                    *)
(***************************************************************************)
\* sensor readings: raw 1000 (54.5 %); a failed read of the sensor counts
\* as 100 %
SensorReadings == {<<1000>>}

TickConfigs ==
    [stop_on_outside_change : BOOLEAN,
     idle_dim : {IdleDimOn},
     screen_brightness_max : {MaxRaw},
     screen_brightness_time : {screen_brightness_time}]

InitTicks ==
    /\ InitEnvironment(TRUE)
    /\ \E c \in TickConfigs, s \in 0..MaxRaw : InitDaemon(c, s, 0)

NextTicks ==
    \/ EventLoop(SensorReadings)
    \/ OutsideScreen
    \/ MainStop

SpecTicks == InitTicks /\ [][NextTicks]_vars

(***************************************************************************)
(* SpecDetector: the Event-Detection Loop with no fade running, another    *)
(* program writing the screen and the keyboard backlight files any number  *)
(* of times, and a termination signal.                                     *)
(***************************************************************************)
InitDetector ==
    /\ InitEnvironment(TRUE)
    /\ \E c \in DaemonConfigs : InitDaemon(c, 0, 0)

NextDetector ==
    \/ EventLoop(DaemonReadings)
    \/ OutsideScreen
    \/ OutsideKeyboard
    \/ Signal
    \/ MainStop

SpecDetector == InitDetector /\ [][NextDetector]_vars

(***************************************************************************)
(* SpecFade: one round of the Update Coordinator.  The daemon starts with  *)
(* the screen at any raw value; its first tick took one sample and         *)
(* published it; the coordinator then runs the two fades to that target,   *)
(* for several fade durations, while another program writes the screen     *)
(* backlight file.                                                         *)
(***************************************************************************)
\* --screen-brightness-time in microseconds: 0, 2 ms, 12 ms and the default
FadeTimes == {0, 2000, 12000, screen_brightness_time}

\* sensor readings of the first tick: 5 %, 36 %, 54 %, 72 % and 100 %
FadeReadings == {<<0>>, <<100>>, <<1000>>, <<10000>>, <<1000000>>}

FadeConfigs ==
    [stop_on_outside_change : BOOLEAN,
     idle_dim : {IdleDimOn},
     screen_brightness_max : {FadeMaxRaw},
     screen_brightness_time : FadeTimes]

\* Daemon.__init__ followed by one steady tick of event_detection_thread
\* that sampled `reading` and published it
FirstPublish(c, s, reading) ==
    LET first == IF RLess(Rat(s * 100, c.screen_brightness_max),
                          R(screen_brightness_min))
                 THEN R(0)
                 ELSE Rat(s * 100, c.screen_brightness_max)
        sample == get_ambient_light(reading)
    IN  /\ RLess(R(ambient_light_delta_update), RAbsDiff(sample, first))
        /\ DaemonFields(c, s, 0)
        /\ ambient_light_last = sample
        /\ ambient_light_current = sample
        /\ ambient_light_values = <<sample>>
        /\ brightnesses_to_set = <<sample, sample>>
        /\ brightnesses_have_to_change = TRUE
        /\ unread = TRUE

InitFade ==
    /\ InitEnvironment(FALSE)
    /\ \E c \in FadeConfigs, s \in 0..FadeMaxRaw, reading \in FadeReadings :
           FirstPublish(c, s, reading)

NextFade ==
    \/ CoordinatorStart
    \/ CoordinatorJoin
    \/ \E readOk \in IoOutcomes : FadeScreenBegin(readOk)
    \/ \E readOk \in IoOutcomes : FadeScreenRead(readOk)
    \/ FadeScreenCompare
    \/ \E writeOk \in IoOutcomes : FadeScreenWrite(writeOk)
    \/ FadeScreenAssign
    \/ FadeKeyboardBegin
    \/ \E readOk \in IoOutcomes : FadeKeyboardRead(readOk)
    \/ FadeKeyboardCompare
    \/ \E writeOk \in IoOutcomes : FadeKeyboardWrite(writeOk)
    \/ FadeKeyboardAssign
    \/ OutsideScreen

SpecFade == InitFade /\ [][NextFade]_vars

(***************************************************************************)
(* SpecAmbient: the ticks of the Event-Detection Loop under the re-assert  *)
(* policy with nothing failing and nobody else writing, the sensor giving  *)
(* raw 0, 10, 100, 1000 and 1000000 (5, 18.2, 36.4, 54.5 and 100 %).       *)
(***************************************************************************)
AmbientReadings == {<<0>>, <<10>>, <<100>>, <<1000>>, <<1000000>>}

AmbientConfigs ==
    [stop_on_outside_change : {FALSE},
     idle_dim : {IdleDimOn},
     screen_brightness_max : {MaxRaw},
     screen_brightness_time : {screen_brightness_time}]

InitAmbient ==
    /\ InitEnvironment(FALSE)
    /\ \E c \in AmbientConfigs : InitDaemon(c, 0, 0)

NextAmbient ==
    \/ Tick(AmbientReadings)
    \/ EvKeyboardCompare
    \/ \E readOk \in IoOutcomes : EvScreenRead(readOk)
    \/ EvScreenCompare
    \/ \E reading \in SensorOutcomes(AmbientReadings) : EvFinishIdle(reading)
    \/ \E reading \in SensorOutcomes(AmbientReadings) : EvFinishSteady(reading)

SpecAmbient == InitAmbient /\ [][NextAmbient]_vars

(***************************************************************************)
(* SpecQuietFade: the round of the Update Coordinator of SpecFade with     *)
(* nobody else writing the backlight files, so that no check of a fade     *)
(* finds a conflict.                                                       *)
(***************************************************************************)
NextQuietFade ==
    \/ CoordinatorStart
    \/ CoordinatorJoin
    \/ \E readOk \in IoOutcomes : FadeScreenBegin(readOk)
    \/ \E readOk \in IoOutcomes : FadeScreenRead(readOk)
    \/ FadeScreenCompare
    \/ \E writeOk \in IoOutcomes : FadeScreenWrite(writeOk)
    \/ FadeScreenAssign
    \/ FadeKeyboardBegin
    \/ \E readOk \in IoOutcomes : FadeKeyboardRead(readOk)
    \/ FadeKeyboardCompare
    \/ \E writeOk \in IoOutcomes : FadeKeyboardWrite(writeOk)
    \/ FadeKeyboardAssign

SpecQuietFade == InitFade /\ [][NextQuietFade]_vars

(***************************************************************************)
(* SpecLidClose: the daemon starts with the screen at any raw value of a   *)
(* wider range and the keyboard at any level, every tick reads the lid as  *)
(* closed, and the Update Coordinator applies what is published, nobody    *)
(* else writing the files.                                                 *)
(***************************************************************************)
LidConfigs ==
    [stop_on_outside_change : BOOLEAN,
     idle_dim : {IdleDimOn},
     screen_brightness_max : {LidMaxRaw},
     screen_brightness_time : {screen_brightness_time}]

InitLidClose ==
    /\ InitEnvironment(FALSE)
    /\ \E c \in LidConfigs, s \in 0..LidMaxRaw, k \in 0..KbdMax :
           InitDaemon(c, s, k)

NextLidClose ==
    \/ \E isIdle \in BOOLEAN : TickClosed(TRUE, isIdle)
    \/ NextQuietFade

SpecLidClose == InitLidClose /\ [][NextLidClose]_vars

(***************************************************************************)
(* SpecShutdown: the whole daemon up to the return of Daemon.run, with a   *)
(* termination signal at any moment, nobody else writing the files and no  *)
(* failing file access, with the default fade duration and with 0.  Every  *)
(* thread that can take a step eventually takes one: the ticks and the     *)
(* waits of the two loops are timed, the polling of Daemon.run sleeps      *)
(* 0.5 s, and the fade workers are threads of the executor.                *)
(***************************************************************************)
\* --screen-brightness-time in microseconds: 0 and the default
ShutdownTimes == {0, screen_brightness_time}

ShutdownConfigs ==
    [stop_on_outside_change : BOOLEAN,
     idle_dim : {IdleDimOn},
     screen_brightness_max : {MaxRaw},
     screen_brightness_time : ShutdownTimes]

InitShutdown ==
    /\ InitEnvironment(FALSE)
    /\ \E c \in ShutdownConfigs : InitDaemon(c, 0, 0)

\* the thread of brightness_update_thread
Coordinator ==
    \/ CoordinatorStart
    \/ CoordinatorJoin
    \/ CoordinatorExit

\* the worker of fade_screen_brightness
ScreenWorker ==
    \/ \E readOk \in IoOutcomes : FadeScreenBegin(readOk)
    \/ \E readOk \in IoOutcomes : FadeScreenRead(readOk)
    \/ FadeScreenCompare
    \/ \E writeOk \in IoOutcomes : FadeScreenWrite(writeOk)
    \/ FadeScreenAssign

\* the worker of fade_keyboard_brightness
KeyboardWorker ==
    \/ FadeKeyboardBegin
    \/ \E readOk \in IoOutcomes : FadeKeyboardRead(readOk)
    \/ FadeKeyboardCompare
    \/ \E writeOk \in IoOutcomes : FadeKeyboardWrite(writeOk)
    \/ FadeKeyboardAssign

NextShutdown ==
    \/ EventLoop(DaemonReadings)
    \/ Coordinator
    \/ ScreenWorker
    \/ KeyboardWorker
    \/ Main
    \/ Signal

FairShutdown ==
    /\ WF_vars(EventLoop(DaemonReadings))
    /\ WF_vars(Coordinator)
    /\ WF_vars(ScreenWorker)
    /\ WF_vars(KeyboardWorker)
    /\ WF_vars(Main)

SpecShutdown == InitShutdown /\ [][NextShutdown]_vars /\ FairShutdown

(***************************************************************************)
(* SpecFairFade: the round of SpecQuietFade (one published target, every   *)
(* starting raw value, fade durations 0, 2 ms, 12 ms and the default,      *)
(* nobody else writing), where the coordinator and each fade worker, being *)
(* threads of their own, take their next step whenever they have one.      *)
(***************************************************************************)
FairFade ==
    /\ WF_vars(CoordinatorStart \/ CoordinatorJoin)
    /\ WF_vars(ScreenWorker)
    /\ WF_vars(KeyboardWorker)

SpecFairFade == InitFade /\ [][NextQuietFade]_vars /\ FairFade

(***************************************************************************)
(* SpecFaultyFade: the rounds of the Update Coordinator after a first      *)
(* publish, in an environment where reads and writes of the backlight      *)
(* files can fail any number of times, while the lid can be closed, which  *)
(* publishes (0, 0); nobody else writes the files.                         *)
(***************************************************************************)
FaultyFadeConfigs ==
    [stop_on_outside_change : {FALSE},
     idle_dim : {IdleDimOn},
     screen_brightness_max : {FadeMaxRaw},
     screen_brightness_time : {screen_brightness_time}]

InitFaultyFade ==
    /\ InitEnvironment(TRUE)
    /\ \E c \in FaultyFadeConfigs, s \in 0..FadeMaxRaw,
          reading \in FadeReadings :
           FirstPublish(c, s, reading)

NextFaultyFade ==
    \/ \E isIdle \in BOOLEAN : TickClosed(TRUE, isIdle)
    \/ NextQuietFade

SpecFaultyFade == InitFaultyFade /\ [][NextFaultyFade]_vars

(***************************************************************************)
(* SpecIdleDim: the ticks of the Event-Detection Loop with --idle-dim 0    *)
(* (the default, dimming disabled) and with --idle-dim 1, for every lid    *)
(* reading and idle time, nothing failing and nobody else writing.         *)
(***************************************************************************)
\* sensor readings of these ticks: raw 10 (18.2 %) and 1000000 (100 %)
IdleDimReadings == {<<10>>, <<1000000>>}

IdleDimConfigs ==
    [stop_on_outside_change : {FALSE},
     idle_dim : {0, IdleDimOn},
     screen_brightness_max : {MaxRaw},
     screen_brightness_time : {screen_brightness_time}]

InitIdleDim ==
    /\ InitEnvironment(FALSE)
    /\ \E c \in IdleDimConfigs : InitDaemon(c, 0, 0)

NextIdleDim ==
    \/ Tick(IdleDimReadings)
    \/ EvKeyboardCompare
    \/ \E readOk \in IoOutcomes : EvScreenRead(readOk)
    \/ EvScreenCompare
    \/ \E reading \in SensorOutcomes(IdleDimReadings) : EvFinishIdle(reading)
    \/ \E reading \in SensorOutcomes(IdleDimReadings) : EvFinishSteady(reading)

SpecIdleDim == InitIdleDim /\ [][NextIdleDim]_vars

(***************************************************************************)
(* SpecStartup: the daemon from its construction, the screen being at any  *)
(* raw value then, with its two loops and the fades running, nothing       *)
(* failing, nobody else writing and no shutdown, under the re-assert       *)
(* policy.                                                                 *)
(***************************************************************************)
StartupConfigs ==
    [stop_on_outside_change : {FALSE},
     idle_dim : {IdleDimOn},
     screen_brightness_max : {MaxRaw},
     screen_brightness_time : {screen_brightness_time}]

InitStartup ==
    /\ InitEnvironment(FALSE)
    /\ \E c \in StartupConfigs, s \in 0..MaxRaw : InitDaemon(c, s, 0)

NextStartup ==
    \/ Tick(DaemonReadings)
    \/ EvKeyboardCompare
    \/ \E readOk \in IoOutcomes : EvScreenRead(readOk)
    \/ EvScreenCompare
    \/ \E reading \in SensorOutcomes(DaemonReadings) : EvFinishIdle(reading)
    \/ \E reading \in SensorOutcomes(DaemonReadings) : EvFinishSteady(reading)
    \/ CoordinatorStart
    \/ CoordinatorJoin
    \/ ScreenWorker
    \/ KeyboardWorker

SpecStartup == InitStartup /\ [][NextStartup]_vars

(***************************************************************************)
(* Properties of the Update Coordinator and of the fades.                  *)
(***************************************************************************)
\* C1: a target published while the coordinator is in the middle of a fade
\* is not lost.  Whenever a published target has not been read by the
\* coordinator and the coordinator is back at its wait, the signal that
\* makes it read the target is set.
C1_PublishedTargetNotLost ==
    (unread /\ coPc = "loop") => brightnesses_have_to_change

\* The lid closed during the fade to 100 %: (0, 0) is the published target,
\* the coordinator is waiting with the signal clear, the screen is at full.
C1_ClosedTargetLost ==
    /\ state = "Closed"
    /\ brightnesses_to_set = <<R(0), R(0)>>
    /\ unread /\ ~brightnesses_have_to_change
    /\ coPc = "loop" /\ ev.pc = "loop"
    /\ hwScreen = conf.screen_brightness_max

\* C2: once a check made by a fade detects a conflict, the fade is aborted:
\* the check that finds the file changed outside is not followed by the
\* write it precedes, the worker being over after it.
C2_FadeAbortsOnConflict ==
    [][/\ (FadeScreenCompare /\ scr.rd # last_screen_brightness)
             => scr'.pc \in {"returned", "raised"}
       /\ (FadeKeyboardCompare /\ kbd.rd # last_keyboard_brightness)
             => kbd'.pc \in {"returned", "raised"}]_vars

\* C4: under the re-assert policy the target published for a conflict is
\* applied: whenever it has not been read by the coordinator and the
\* coordinator is back at its wait, the signal is set.
C4_ReassertedTargetNotLost ==
    (~conf.stop_on_outside_change /\ unread /\ coPc = "loop")
        => brightnesses_have_to_change

\* C5: a screen fade ends with a write of exactly
\* raw_target = trunc(max * target / 100): raw_target is that number, every
\* write puts the value of its call in the file, and the call the fade
\* returns from is the call of raw_target, which is in the file unless
\* another program wrote the file after it.
C5_FadeLandsOnRawTarget ==
    [][/\ CoordinatorStart
             => scr'.raw_target =
                   (conf.screen_brightness_max * brightnesses_to_set[1][1])
                       \div (100 * brightnesses_to_set[1][2])
       /\ FadeScreenWrite(TRUE) => hwScreen' = scr.value
       /\ (FadeScreenAssign /\ scr'.pc = "returned")
             => /\ scr.value = scr.raw_target
                /\ last_screen_brightness' = scr.raw_target
                /\ "screen" \notin outside => hwScreen = scr.raw_target]_vars

\* a fade of step 2 from 0 to 3 wrote 2, advanced to 4 and wrote 3
C5_LandedAfterOvershoot ==
    /\ scr.pc = "assign" /\ scr.final
    /\ Abs(scr.step) > 1
    /\ scr.sb # scr.raw_target
    /\ hwScreen = scr.raw_target

\* C6: for every diff # 0 and every duration T > 0 the interval between two
\* writes is at least 5 ms, and the step is sign(diff) * 2^k, k being the
\* number of doublings of T / |diff| that reaches 5 ms.
C6_IntervalAtLeast5ms ==
    [][\A readOk \in BOOLEAN :
          (FadeScreenBegin(readOk) /\ scr'.pc = "read") =>
              LET diff == scr.raw_target - hwScreen
                  n == IF diff < 0 THEN -diff ELSE diff
                  T == conf.screen_brightness_time
              IN  /\ T > 0 /\ n > 0
                  /\ scr'.interval[1] >= MinInterval * scr'.interval[2]
                  /\ \E k \in 0..MaxDoublings :
                        /\ scr'.step = (IF diff > 0 THEN 1 ELSE -1) * 2^k
                        /\ scr'.interval[1] * n
                              = T * 2^k * scr'.interval[2]
                        /\ \A j \in 0..(k - 1) : T * 2^j < MinInterval * n]_vars

\* a fade of one raw unit down in 2 ms: the interval was doubled twice
C6_DoubledTwice ==
    /\ scr.pc = "read"
    /\ conf.screen_brightness_time = 2000
    /\ scr.step = -4
    /\ scr.interval = <<8000, 1>>

(***************************************************************************)
(* Properties of the outside-change detector.                              *)
(***************************************************************************)
\* C3: with no fade running, a check that reads a value other than the last
\* known one reports a conflict (a shutdown under the terminate policy, the
\* target (ambient_light_last, ambient_light_last) under the re-assert
\* policy) and makes the value read the last known one under both policies;
\* a check that reads the last known value reports nothing; and a check of
\* a file no other program wrote since the daemon last read it reads the
\* last known value.
C3_ConflictReportedOnce ==
    [][LET reported ==
               IF conf.stop_on_outside_change
               THEN shutdown'
               ELSE /\ brightnesses_to_set'
                          = <<ambient_light_last, ambient_light_last>>
                    /\ brightnesses_have_to_change'
                    /\ unread'
       IN  /\ EvScreenCompare =>
                  IF ev.rd # last_screen_brightness
                  THEN last_screen_brightness' = ev.rd /\ reported
                  ELSE UNCHANGED <<last_screen_brightness, shutdown, pubVars>>
           /\ EvKeyboardCompare =>
                  IF ev.rd # last_keyboard_brightness
                  THEN last_keyboard_brightness' = ev.rd /\ reported
                  ELSE UNCHANGED <<last_keyboard_brightness, shutdown,
                                   pubVars>>
           /\ EvScreenRead(TRUE) =>
                  /\ ev'.rd = hwScreen
                  /\ "screen" \notin outside
                        => hwScreen = last_screen_brightness
           /\ \A lid \in BOOLEAN, isIdle \in BOOLEAN :
                  TickVerify(lid, isIdle, TRUE) =>
                      /\ ev'.rd = hwKbd
                      /\ "keyboard" \notin outside
                            => hwKbd = last_keyboard_brightness]_vars

\* another program changed the screen backlight; the check of a tick
\* re-asserted the last committed target and knows the value of the file
C3_ScreenConflictReported ==
    /\ ~conf.stop_on_outside_change
    /\ ev.pc = "finish"
    /\ hwScreen # 0
    /\ last_screen_brightness = hwScreen
    /\ "screen" \notin outside
    /\ unread
    /\ brightnesses_to_set = <<ambient_light_last, ambient_light_last>>

(***************************************************************************)
(* Properties of the Event-Detection Loop.                                 *)
(***************************************************************************)
\* C7: the target (screen_brightness_dim_min, 100) is published exactly
\* once per entry into Idle: by the step that changes the state to Idle,
\* and by no other step.
C7_IdleTargetOncePerEntry ==
    [][LET idleTarget == <<R(screen_brightness_dim_min), R(100)>>
           entersIdle == state # "Idle" /\ state' = "Idle"
           publishesIt ==
               /\ brightnesses_to_set' = idleTarget
               /\ brightnesses_have_to_change' /\ unread'
               /\ \/ brightnesses_to_set # idleTarget
                  \/ ~brightnesses_have_to_change
                  \/ ~unread
       IN  /\ entersIdle => /\ brightnesses_to_set' = idleTarget
                            /\ brightnesses_have_to_change' /\ unread'
           /\ publishesIt => entersIdle]_vars

\* Idle, two samples taken, and the dimmed target read by the coordinator
\* and applied: nothing is published for the coordinator to read again
C7_IdleTargetApplied ==
    /\ state = "Idle" /\ ev.pc = "loop"
    /\ Len(ambient_light_values) >= 2
    /\ brightnesses_to_set = <<R(screen_brightness_dim_min), R(100)>>
    /\ ~unread /\ ~brightnesses_have_to_change /\ coPc = "loop"

\* C8: a tick that reads the lid as closed publishes exactly (0, 0) and
\* enters Closed when the state is not Closed, and publishes nothing when
\* it is; either way it takes no ambient sample and runs no detector check.
C8_ClosedPublishesZero ==
    [][\A lid \in BOOLEAN, isIdle \in BOOLEAN :
          TickClosed(lid, isIdle) =>
              /\ lid
              /\ IF state # "Closed"
                 THEN /\ brightnesses_to_set' = <<R(0), R(0)>>
                      /\ brightnesses_have_to_change' /\ unread'
                      /\ state' = "Closed"
                 ELSE UNCHANGED <<pubVars, state>>
              /\ UNCHANGED <<ambientVars, lastVars, hwVars, ev>>]_vars

\* Closed after a sample of 100 % was committed, (0, 0) read by the
\* coordinator and applied to the screen
C8_ClosedTargetApplied ==
    /\ state = "Closed" /\ ev.pc = "loop"
    /\ ambient_light_last = R(100)
    /\ brightnesses_to_set = <<R(0), R(0)>>
    /\ ~unread /\ coPc = "loop"
    /\ hwScreen = 0

\* C9: the state after a tick is a function of the inputs of the tick in
\* priority order: Closed if the lid reads closed, otherwise Idle if the
\* user is idle, otherwise Used.  A tick of several steps keeps the state
\* until its last step.
C9_StateByPriority ==
    [][/\ \A lid \in BOOLEAN, isIdle \in BOOLEAN :
             LET priority == IF lid THEN "Closed"
                             ELSE IF isIdle THEN "Idle" ELSE "Used"
             IN  /\ TickClosed(lid, isIdle) => state' = priority
                 /\ \A reading \in SensorOutcomes(SensorReadings) :
                        (\/ TickIdle(lid, isIdle, reading)
                         \/ TickRecover(lid, isIdle, reading))
                            => state' = priority
                 /\ TickVerify(lid, isIdle, TRUE) =>
                        /\ priority # "Closed"
                        /\ ev'.branch = IF priority = "Idle" THEN "idle"
                                        ELSE "steady"
       /\ \A reading \in SensorOutcomes(SensorReadings) :
             /\ EvFinishIdle(reading) => ev.branch = "idle" /\ state' = "Idle"
             /\ EvFinishSteady(reading)
                   => ev.branch = "steady" /\ state' = "Used"
       /\ ev'.pc # "loop" => state' = state
       /\ state' \in States]_vars

\* Closed with the buffer full: ticks of an open lid, then a closed lid
C9_ClosedAfterSamples ==
    /\ state = "Closed" /\ ev.pc = "loop"
    /\ Len(ambient_light_values) = MeasuresNumber
    /\ ambient_light_current # ambient_light_last

\* C10: a tick that changes the state from Idle or Closed to Used publishes
\* in the same step (ambient_light_last, ambient_light_last) and leaves
\* ambient_light_last unchanged.
C10_RecoverPublishesLastCommitted ==
    [][(state # "Used" /\ state' = "Used") =>
          /\ brightnesses_to_set' = <<ambient_light_last, ambient_light_last>>
          /\ brightnesses_have_to_change' /\ unread'
          /\ ambient_light_last' = ambient_light_last]_vars

\* Used again with the percentage of the start (raw 1) as the target, which
\* no sample equals, under the terminate policy, which re-asserts nothing
C10_RecoveredWithStartValue ==
    /\ conf.stop_on_outside_change
    /\ state = "Used" /\ ev.pc = "loop"
    /\ ambient_light_last = Rat(100, conf.screen_brightness_max)
    /\ brightnesses_to_set = <<ambient_light_last, ambient_light_last>>
    /\ unread
    /\ Len(ambient_light_values) >= 2

(***************************************************************************)
(* Properties of the steady Used tick and of the estimator.                *)
(***************************************************************************)
\* C11: a steady Used tick publishes if and only if
\* |tendency - ambient_light_last| > ambient_light_delta_update; what it
\* publishes is (tendency, tendency), the tendency being the trimmed mean
\* just recomputed, and ambient_light_last becomes that tendency; otherwise
\* nothing is published and ambient_light_last is unchanged.
C11_SteadyPublishesTendency ==
    [][\A reading \in SensorOutcomes(SensorReadings) :
          EvFinishSteady(reading) =>
              IF RLess(R(ambient_light_delta_update),
                       RAbsDiff(ambient_light_current', ambient_light_last))
              THEN /\ brightnesses_to_set'
                         = <<ambient_light_current', ambient_light_current'>>
                   /\ brightnesses_have_to_change' /\ unread'
                   /\ ambient_light_last' = ambient_light_current'
              ELSE UNCHANGED <<pubVars, ambient_light_last>>]_vars

\* after a steady tick the committed target is the newest sample, which is
\* not the tendency of the buffer
C11_NewestSamplePublished ==
    /\ state = "Used" /\ ev.pc = "loop"
    /\ Len(ambient_light_values) >= 2
    /\ ambient_light_last = ambient_light_values[Len(ambient_light_values)]
    /\ ambient_light_last # ambient_light_current
    /\ brightnesses_to_set = <<ambient_light_last, ambient_light_last>>
    /\ unread

\* C12: the tendency is the arithmetic mean of the buffered samples when
\* there are fewer than 3, and otherwise the mean of the buffer without one
\* instance of its maximum and one instance of its minimum; the samples
\* 10, 20, 90 give 20.
C12_TendencyIsTrimmedMean ==
    /\ Tendency(<<R(10), R(20), R(90)>>) = R(20)
    /\ Tendency(<<R(10), R(10), R(90), R(90)>>) = R(50)
    /\ Len(ambient_light_values) > 0 =>
          ambient_light_current =
             IF Len(ambient_light_values) < 3
             THEN RDiv(RSum(ambient_light_values), Len(ambient_light_values))
             ELSE LET sum == RSum(ambient_light_values)
                      max == RMaxOf(ambient_light_values)
                      min == RMinOf(ambient_light_values)
                  IN  Rat(sum[1] * max[2] * min[2]
                             - max[1] * sum[2] * min[2]
                             - min[1] * sum[2] * max[2],
                          sum[2] * max[2] * min[2]
                             * (Len(ambient_light_values) - 2))

\* a full buffer of three different samples: the tendency is the middle one
C12_ThreeDifferentSamples ==
    /\ Len(ambient_light_values) = 3
    /\ ambient_light_values[1] # ambient_light_values[2]
    /\ ambient_light_values[2] # ambient_light_values[3]
    /\ ambient_light_values[1] # ambient_light_values[3]
    /\ ambient_light_current \in {ambient_light_values[i] : i \in 1..3}
    /\ ambient_light_current # RMaxOf(ambient_light_values)
    /\ ambient_light_current # RMinOf(ambient_light_values)

\* C13: the buffer never holds more than the configured number of samples;
\* every step of a tick that samples the sensor puts the sample at the end
\* of the buffer, the samples before it keeping their order, and evicts the
\* oldest sample, and only that one, when the buffer is full; no other step
\* changes the buffer.
C13_BufferBoundedInOrder ==
    /\ [](Len(ambient_light_values) <= MeasuresNumber)
    /\ [][LET kept == IF Len(ambient_light_values) = MeasuresNumber
                      THEN SubSeq(ambient_light_values, 2,
                                  Len(ambient_light_values))
                      ELSE ambient_light_values
          IN  /\ \A reading \in AmbientReadings,
                    lid \in BOOLEAN, isIdle \in BOOLEAN :
                     (\/ TickIdle(lid, isIdle, reading)
                      \/ TickRecover(lid, isIdle, reading)
                      \/ EvFinishIdle(reading)
                      \/ EvFinishSteady(reading))
                        => ambient_light_values'
                              = kept \o <<get_ambient_light(reading)>>
              /\ ambient_light_values' # ambient_light_values =>
                    \E reading \in AmbientReadings :
                        ambient_light_values'
                           = kept \o <<get_ambient_light(reading)>>]_vars

\* a full buffer that no longer holds the committed sample 18.2 %, which
\* was appended when it was committed: it was evicted
C13_FullBufferAfterEviction ==
    /\ Len(ambient_light_values) = MeasuresNumber
    /\ ev.pc = "loop"
    /\ ambient_light_last = <<200, 11>>
    /\ \A i \in 1..MeasuresNumber : ambient_light_values[i] # ambient_light_last

(***************************************************************************)
(* Properties of the fades, with nobody else writing the files.            *)
(***************************************************************************)
\* C14: when T / |diff| is at least 5 ms the step is sign(diff), and a fade
\* from raw c to raw_target r then writes c + sign, c + 2 * sign, ..., r:
\* its first write is c + sign, every write moves the file by sign, and the
\* fade returns after the write that makes the file r, and not before.
C14_OneWritePerRawUnit ==
    [][/\ \A readOk \in BOOLEAN :
             (FadeScreenBegin(readOk) /\ scr'.pc = "read") =>
                 LET diff == scr.raw_target - hwScreen
                     sign == IF diff > 0 THEN 1 ELSE -1
                 IN  conf.screen_brightness_time >= MinInterval * diff * sign
                        => /\ scr'.step = sign
                           /\ scr'.value = hwScreen + sign
       /\ (FadeScreenWrite(TRUE) /\ scr.step \in {1, -1})
             => hwScreen' = hwScreen + scr.step
       /\ (FadeScreenAssign /\ scr.step \in {1, -1}) =>
             IF hwScreen = scr.raw_target
             THEN scr'.pc = "returned"
             ELSE scr'.pc = "read" /\ scr'.value = hwScreen + scr.step]_vars

\* the last of the writes of a fade of step 1 up to the maximum: the file
\* holds raw_target, the value written before it was raw_target - 1
C14_LastOfSeveralWrites ==
    /\ scr.pc = "assign" /\ scr.step = 1
    /\ scr.raw_target = conf.screen_brightness_max
    /\ hwScreen = scr.raw_target
    /\ last_screen_brightness = scr.raw_target - 1

\* C15: a screen fade re-floors its target percent at screen_brightness_min:
\* the raw value a fade drives to is trunc(max * p / 100), p being the
\* published percent, or screen_brightness_min when that is greater.
C15_TargetFlooredAtMinimum ==
    [][CoordinatorStart =>
          LET target == brightnesses_to_set[1]
              floored == IF RLess(target, R(screen_brightness_min))
                         THEN R(screen_brightness_min)
                         ELSE target
          IN  scr'.raw_target =
                 (conf.screen_brightness_max * floored[1])
                     \div (100 * floored[2])]_vars

\* lid closed: the fade to the published 0 % has written raw 0, below the
\* raw value of screen_brightness_min percent
C15_WroteBelowMinimum ==
    /\ state = "Closed"
    /\ scr.pc = "assign" /\ scr.final
    /\ hwScreen = 0
    /\ (conf.screen_brightness_max * screen_brightness_min) \div 100 > 0

\* C16: a keyboard fade writes levels one at a time from the current level
\* to the target level, in the direction of the target: each write differs
\* by exactly 1, towards the target, from the level the file held before
\* it; and it writes nothing when the target level is the current level.
C16_KeyboardStepsFromCurrent ==
    [][/\ FadeKeyboardWrite(TRUE) =>
             LET target == kbd.targets[Len(kbd.targets)]
             IN  /\ hwKbd # target
                 /\ hwKbd' = hwKbd + (IF target > hwKbd THEN 1 ELSE -1)
       /\ (FadeKeyboardBegin /\ kbd.targets[Len(kbd.targets)] = hwKbd)
             => kbd'.pc = "returned"]_vars

\* the keyboard was at level 2 and the target is level 3: the first write
\* of the fade has put it down to level 1
C16_SteppedAwayFromTarget ==
    /\ kbd.pc = "assign" /\ kbd.i = 1
    /\ kbd.targets = <<1, 2, 3>>
    /\ last_keyboard_brightness = 2
    /\ hwKbd = 1

\* C17: the published target and the wake signal have one producer and one
\* consumer: only the Event-Detection Loop writes the target and sets the
\* signal, only the Update Coordinator reads the target and clears the
\* signal; no step of a fade worker changes the published target or sets
\* the signal.
C17_WorkersNeverPublish ==
    [][LET workerStep == /\ coPc = "fading" /\ coPc' = "fading"
                         /\ (scr' # scr \/ kbd' # kbd)
       IN  /\ workerStep =>
                /\ brightnesses_to_set' = brightnesses_to_set
                /\ brightnesses_have_to_change' = brightnesses_have_to_change
                /\ unread' = unread
           /\ (brightnesses_have_to_change /\ ~brightnesses_have_to_change')
                => CoordinatorJoin
           /\ (unread /\ ~unread') => CoordinatorStart]_vars

\* a fade worker has replaced the (0, 0) published for the closed lid while
\* the coordinator was fading
C17_WorkerOverwroteClosedTarget ==
    /\ coPc = "fading"
    /\ state = "Closed"
    /\ unread
    /\ brightnesses_to_set = <<ambient_light_last, ambient_light_last>>
    /\ ambient_light_last # R(0)

\* C18: the last known brightness values are accessed one thread at a time,
\* so with no other program writing the backlight files no detector check
\* reports a conflict: in every interleaving of the ticks with the writes of
\* the running fades, each comparison of a value read from a file with the
\* last known value finds them equal, and no shutdown is requested.
C18_NoConflictWithoutOutsideWrite ==
    [][/\ EvScreenCompare => ev.rd = last_screen_brightness
       /\ EvKeyboardCompare => ev.rd = last_keyboard_brightness
       /\ FadeScreenCompare => scr.rd = last_screen_brightness
       /\ FadeKeyboardCompare => kbd.rd = last_keyboard_brightness
       /\ shutdown' = shutdown]_vars

\* under the terminate policy the daemon is shutting down although nothing
\* but the daemon has written the files and no signal was sent
C18_ShutdownByOwnWrite ==
    /\ conf.stop_on_outside_change
    /\ shutdown
    /\ outside = {}
    /\ mainPc = "exit"

\* C19: for each target it applies, the coordinator runs the screen fade and
\* the keyboard fade concurrently, and neither reads another target nor
\* starts another fade until both have finished: the two fades are started
\* together, from a state where none is running; a running fade keeps the
\* target it was started with whatever is published meanwhile; and the
\* coordinator goes on only when both fades are over.  So at most one screen
\* fade and one keyboard fade are in flight at any time.
C19_BothFadesJoinedBeforeNext ==
    /\ [](/\ (coPc = "fading") <=> (scr.pc # "off")
          /\ (scr.pc = "off") <=> (kbd.pc = "off"))
    /\ [][LET running(w) == w.pc \notin {"off", "returned", "raised"}
          IN  /\ (scr'.pc = "begin" /\ scr.pc # "begin")
                    \/ (kbd'.pc = "begin" /\ kbd.pc # "begin")
                 => /\ scr.pc = "off" /\ kbd.pc = "off"
                    /\ scr'.pc = "begin" /\ kbd'.pc = "begin"
                    /\ unread /\ ~unread'
              /\ (unread /\ ~unread') => scr.pc = "off" /\ kbd.pc = "off"
              /\ (running(scr) /\ running(scr'))
                    => scr'.raw_target = scr.raw_target
              /\ (running(kbd) /\ running(kbd'))
                    => kbd'.targets = kbd.targets
              /\ (coPc = "fading" /\ coPc' # "fading")
                    => WorkerOver(scr) /\ WorkerOver(kbd)]_vars

\* both fades are in the middle of their writes at the same time, and a
\* target published since they started is waiting for the coordinator
C19_BothFadingTargetWaiting ==
    /\ coPc = "fading"
    /\ scr.pc = "write" /\ ~scr.final
    /\ kbd.pc = "write" /\ kbd.i = 2
    /\ unread
    /\ brightnesses_to_set[1] # R(100)

\* C20: after a shutdown request (a termination signal, or a conflict under
\* the terminate policy) both loops eventually stop and the join of
\* Daemon.run returns; each loop stops between two units of its work, so a
\* fade in flight is not cut short: the coordinator leaves only with the two
\* fades over, and a screen fade that was writing still makes its last
\* write, of raw_target.
C20_ShutdownCompletes ==
    /\ shutdown ~> (mainPc = "exit" /\ ev.pc = "done" /\ coPc = "done")
    /\ [](coPc = "done" => scr.pc = "off" /\ kbd.pc = "off")
    /\ [][/\ (ev.pc # "done" /\ ev'.pc = "done") => ev.pc = "loop"
          /\ (coPc # "done" /\ coPc' = "done") => coPc = "loop"
          /\ (scr.pc = "assign" /\ scr'.pc = "returned")
                => scr.final /\ hwScreen = scr.raw_target]_vars

\* with a fade duration of 0 the screen fade is in its doubling loop for
\* ever, and the main thread, having stopped the two loops, waits for them
C20_JoinWaitsForSpinningFade ==
    /\ conf.screen_brightness_time = 0
    /\ scr.pc = "spin"
    /\ mainPc = "join"
    /\ ev.pc = "done"
    /\ loopShutdown.update

(***************************************************************************)
(* Properties of error handling, startup and the frame of the state.       *)
(***************************************************************************)
\* C21: an exception raised inside a tick of the Event-Detection Loop (a
\* failed read of a backlight file) never stops the loop: the thread ends
\* only between two ticks and only once its loop was told to stop; a step
\* of a tick either goes on with the tick or takes the thread back to the
\* wait from which the next tick begins.
C21_TickExceptionKeepsLoop ==
    /\ [](ev.pc = "done" => loopShutdown.event)
    /\ [][/\ (ev.pc # "done" /\ ev'.pc = "done") => ev.pc = "loop"
          /\ (ev.pc = "loop" /\ ev' # ev /\ ~loopShutdown.event)
                => ev'.pc = "kbd_cmp" /\ ev'.rd = hwKbd
          /\ (ev.pc = "scr_read" /\ ev' # ev)
                => ev'.pc = "scr_cmp" \/ ev' = EvLoop]_vars

\* the tick compared the keyboard level, found it changed and republished,
\* then its read of the screen file failed: the tick ended without taking
\* its sample, and the loop is ready for the next tick
C21_TickEndedByFailedRead ==
    /\ ev.pc = "loop" /\ ~loopShutdown.event
    /\ state = "Used"
    /\ ambient_light_values = <<>>
    /\ last_keyboard_brightness # 0
    /\ unread

\* C22: with an idle threshold of 0 the state Idle is unreachable: whatever
\* the lid readings and the idle times, the state is Used or Closed and the
\* idle target (screen_brightness_dim_min, 100) is never the published one.
C22_IdleUnreachableWhenDisabled ==
    conf.idle_dim = 0 =>
        /\ state \in {"Used", "Closed"}
        /\ brightnesses_to_set # <<R(screen_brightness_dim_min), R(100)>>

\* dimming disabled: the lid was closed and opened again, and the recovery
\* tick has sampled and republished
C22_RecoveredWithDimmingOff ==
    /\ conf.idle_dim = 0
    /\ state = "Used"
    /\ ev.pc = "loop"
    /\ Len(ambient_light_values) = 2
    /\ unread
    /\ brightnesses_to_set = <<ambient_light_last, ambient_light_last>>

\* C23: at startup the state is Used, the wake signal is clear and
\* ambient_light_last is the raw value of the screen as a percent of the
\* maximum, or 0 when that is below screen_brightness_min.  The backlight
\* files are written only by the fades of a coordinator round, and a round
\* starts only with the signal set, so nothing is written before the first
\* publish.  The first tick with the lid open and the user active takes the
\* steady branch of Used, and publishes nothing when its sample, which is
\* then the tendency, is within ambient_light_delta_update of
\* ambient_light_last.
C23_StartupSeededFromScreen ==
    /\ LET pct == Rat(hwScreen * 100, conf.screen_brightness_max)
       IN  /\ state = "Used"
           /\ ~brightnesses_have_to_change
           /\ ambient_light_last =
                 IF RLess(pct, R(screen_brightness_min)) THEN R(0) ELSE pct
    /\ [][LET starting == ambient_light_values = <<>> /\ state = "Used"
          IN  /\ (hwScreen' # hwScreen \/ hwKbd' # hwKbd)
                    => coPc = "fading"
              /\ CoordinatorStart => brightnesses_have_to_change
              /\ (brightnesses_have_to_change'
                    /\ ~brightnesses_have_to_change) => unread'
              /\ (starting /\ ev.pc = "loop" /\ ev' # ev)
                    => ev'.branch \in {"steady", "idle"}
              /\ (starting /\ TickVerify(FALSE, FALSE, TRUE))
                    => ev'.branch = "steady"
              /\ \A reading \in DaemonReadings :
                    (starting /\ EvFinishSteady(reading)
                       /\ ~RLess(R(ambient_light_delta_update),
                                 RAbsDiff(get_ambient_light(reading),
                                          ambient_light_last)))
                    => /\ UNCHANGED <<pubVars, ambient_light_last>>
                       /\ ambient_light_current' = get_ambient_light(reading)
         ]_vars

\* the daemon started with the screen at its maximum, its first tick
\* sampled 100 % and published nothing, and nothing was written
C23_FirstTickPublishedNothing ==
    /\ Len(ambient_light_values) = 1
    /\ ambient_light_current = R(100)
    /\ ambient_light_last = R(100)
    /\ ev.pc = "loop"
    /\ ~brightnesses_have_to_change /\ ~unread
    /\ brightnesses_to_set = <<R(0), R(0)>>
    /\ hwScreen = conf.screen_brightness_max

\* C24: a failed read of the ambient-light sensor is not propagated: the
\* sampling step of the tick takes place as with a reading, and the sample
\* it appends to the buffer is a neutral percent strictly between
\* screen_brightness_min and 100.
C24_FailedSampleIsMidRange ==
    [][(\/ EvFinishSteady(<<>>)
        \/ EvFinishIdle(<<>>)
        \/ \E lid \in BOOLEAN, isIdle \in BOOLEAN :
              \/ TickIdle(lid, isIdle, <<>>)
              \/ TickRecover(lid, isIdle, <<>>))
          => LET sample == ambient_light_values'[Len(ambient_light_values')]
             IN  /\ sample = get_ambient_light(<<>>)
                 /\ RLess(R(screen_brightness_min), sample)
                 /\ RLess(sample, R(100))
                 /\ ev'.pc = "loop"]_vars

\* the sensor could not be read on a steady tick: the sample 100 % is in the
\* buffer, and has been published and committed
C24_FailedSamplePublishedFull ==
    /\ ev.pc = "loop"
    /\ state = "Used"
    /\ ambient_light_values # <<>>
    /\ ambient_light_values[Len(ambient_light_values)] = R(100)
    /\ ambient_light_last = R(100)
    /\ brightnesses_to_set = <<R(100), R(100)>>
    /\ hwScreen = 0

\* C25: the state is changed only by the ticks of the Event-Detection Loop:
\* a step that changes it is the single step of a tick or the last step of
\* one, and every step of the Update Coordinator, of a screen or keyboard
\* fade, of the main thread and of the detector's conflict handling leaves
\* it as it was.
C25_StateChangedOnlyByTicks ==
    [][/\ state' # state
            => /\ ev.pc \in {"loop", "finish"}
               /\ ev'.pc = "loop"
               /\ UNCHANGED <<coPc, scr, kbd, mainPc>>
       /\ (Coordinator \/ ScreenWorker \/ KeyboardWorker \/ Main
              \/ EvKeyboardCompare \/ EvScreenCompare)
            => state' = state]_vars

\* the user is idle, and while the coordinator was fading a fade worker
\* found a conflict and republished: the state is still Idle
C25_IdleAfterWorkerConflict ==
    /\ state = "Idle"
    /\ coPc = "fading"
    /\ kbd.pc = "write"
    /\ unread
    /\ brightnesses_to_set = <<ambient_light_last, ambient_light_last>>

\* C26: the values a screen fade writes, nobody else writing, are strictly
\* monotone from the raw value it started from towards raw_target: each
\* write puts the file strictly further in the direction of the fade than
\* it was, never beyond raw_target, and within 0..screen_brightness_max;
\* while the fade runs the file is never beyond raw_target.
C26_WritesMonotoneToTarget ==
    /\ [](scr.pc \in {"read", "cmp", "write", "assign"} =>
             IF scr.step > 0 THEN hwScreen <= scr.raw_target
                             ELSE hwScreen >= scr.raw_target)
    /\ [][FadeScreenWrite(TRUE) =>
             /\ IF scr.step > 0
                THEN hwScreen < hwScreen' /\ hwScreen' <= scr.raw_target
                ELSE hwScreen > hwScreen' /\ hwScreen' >= scr.raw_target
             /\ hwScreen' \in 0..conf.screen_brightness_max]_vars

\* a fade of step 2 from raw 1 to raw 4 wrote 3 and has just written 4
C26_LandedAfterDoubledStep ==
    /\ scr.pc = "assign" /\ scr.final
    /\ scr.step = 2
    /\ scr.raw_target = 4
    /\ hwScreen = 4
    /\ last_screen_brightness = 3

\* C27: every tick that ends in state Idle, the one that enters it included,
\* appends exactly one sample to the buffer and recomputes the tendency from
\* it, and does not act on it: a tick taken while already Idle publishes
\* nothing, and no step that leaves the state Idle changes
\* ambient_light_last.
C27_IdleTicksOnlySample ==
    [][/\ \A reading \in SensorOutcomes(SensorReadings) :
            /\ (EvFinishIdle(reading)
                  \/ \E lid \in BOOLEAN, isIdle \in BOOLEAN :
                        TickIdle(lid, isIdle, reading))
                 => /\ state' = "Idle"
                    /\ ambient_light_values' =
                          DequeAppend(ambient_light_values,
                                      get_ambient_light(reading),
                                      MeasuresNumber)
                    /\ ambient_light_current' =
                          Tendency(ambient_light_values')
            /\ (\E lid \in BOOLEAN, isIdle \in BOOLEAN :
                   TickIdle(lid, isIdle, reading)) => UNCHANGED pubVars
       /\ (state = "Idle" /\ state' = "Idle" /\ ev.pc = "loop")
            => UNCHANGED pubVars
       /\ state' = "Idle" => ambient_light_last' = ambient_light_last]_vars

\* the user has been idle for several ticks: the buffer is full, the
\* tendency has moved away from ambient_light_last, and the dimmed target of
\* the entry is still the published one
C27_IdleWithFullBuffer ==
    /\ state = "Idle"
    /\ ev.pc = "loop"
    /\ Len(ambient_light_values) = MeasuresNumber
    /\ ambient_light_current # ambient_light_last
    /\ brightnesses_to_set = <<R(screen_brightness_dim_min), R(100)>>

\* C28: every screen fade terminates, whatever the raw value it starts
\* from, its target and the fade duration, 0 included: a fade that was
\* submitted eventually returns.
C28_ScreenFadeTerminates ==
    (scr.pc = "begin") ~> (scr.pc \in {"returned", "raised", "off"})

\* with a fade duration of 0 and a target different from the current raw
\* value, the fade is in its doubling loop, where interval stays 0; the
\* keyboard fade has returned and the coordinator waits
C28_FadeInDoublingLoop ==
    /\ conf.screen_brightness_time = 0
    /\ scr.pc = "spin"
    /\ kbd.pc = "returned"
    /\ coPc = "fading"

\* C29: once the coordinator has applied the (0, 0) published for the
\* closed lid, nobody else writing, both backlights are off: the screen is
\* at raw 0 and the keyboard at level 0.
C29_ClosedTurnsBacklightsOff ==
    (/\ state = "Closed"
     /\ brightnesses_to_set = <<R(0), R(0)>>
     /\ coPc = "loop" /\ ~brightnesses_have_to_change /\ ~unread)
        => hwScreen = 0 /\ hwKbd = 0

\* the lid is closed and its target applied: the screen is off and the
\* keyboard backlight, which was off when the daemon started, is at its
\* highest level
C29_KeyboardFullWhenClosed ==
    /\ state = "Closed"
    /\ brightnesses_to_set = <<R(0), R(0)>>
    /\ coPc = "loop" /\ ~brightnesses_have_to_change /\ ~unread
    /\ hwScreen = 0
    /\ hwKbd = KbdMax
    /\ last_keyboard_brightness = KbdMax

\* C30: when a fade of a round fails with an exception (a read of a
\* backlight file failed), the wake signal stays set and the coordinator is
\* back at its wait, not stopped, with the published target untouched; the
\* signal is cleared only by a round whose two fades returned; and the next
\* round, which the set signal starts, takes the target published last.
C30_FailedRoundIsRetried ==
    /\ [](coPc # "done")
    /\ [][/\ (coPc = "fading" /\ coPc' # "fading"
                 /\ (scr.pc = "raised" \/ kbd.pc = "raised"))
               => /\ brightnesses_have_to_change'
                  /\ coPc' = "loop"
                  /\ UNCHANGED <<brightnesses_to_set, unread>>
          /\ (brightnesses_have_to_change /\ ~brightnesses_have_to_change')
               => scr.pc = "returned" /\ kbd.pc = "returned"
          /\ (coPc = "loop" /\ coPc' = "fading")
               => /\ brightnesses_have_to_change
                  /\ scr'.pc = "begin" /\ kbd'.pc = "begin"
                  /\ scr'.raw_target = RawTarget(conf.screen_brightness_max,
                                                 brightnesses_to_set[1])
                  /\ kbd'.targets = KbdTargets(brightnesses_to_set[2])
                  /\ ~unread']_vars

\* a round read the target and failed before the screen reached it: the
\* coordinator is back at its wait and the signal is still set, though
\* nothing was published since
C30_SignalSetAfterFailedRound ==
    /\ coPc = "loop"
    /\ brightnesses_have_to_change
    /\ ~unread
    /\ scr.pc = "off" /\ kbd.pc = "off"
    /\ hwScreen # RawTarget(conf.screen_brightness_max, brightnesses_to_set[1])

\* C31: the last known brightness values only ever hold a value the daemon
\* wrote to or read from the file: a write that fails does not change them,
\* so after the assignment that follows a write the last known value is
\* what the file holds, and, nobody else writing, no check of a fade finds
\* the value it read different from the last known one.
C31_LastKnownIsWhatFileHolds ==
    [][/\ FadeScreenAssign => last_screen_brightness' = hwScreen
       /\ FadeKeyboardAssign => last_keyboard_brightness' = hwKbd
       /\ FadeScreenCompare => scr.rd = last_screen_brightness
       /\ FadeKeyboardCompare => kbd.rd = last_keyboard_brightness]_vars

\* a write of the screen fade failed and the value was recorded as written:
\* the check before the next write has read the file and is about to find
\* a conflict, nobody else having written
C31_ConflictAfterFailedWrite ==
    /\ scr.pc = "cmp"
    /\ outside = {}
    /\ scr.rd = hwScreen
    /\ scr.rd # last_screen_brightness

====
